---------------------------- MODULE Spec2Model ----------------------------
(***************************************************************************)
(* A model of the expense tracker (Flask + MongoDB): the one collection    *)
(* of user documents, the request handlers of auth/routes.py and           *)
(* tracker/routes.py, the store operations of auth/models.py and           *)
(* tracker/models.py, and the aggregation functions of Expense.            *)
(*                                                                         *)
(* Text (form data, stored strings, rendered strings) is a sequence of     *)
(* one-character strings, so that strip(), Decimal(text), str(Decimal)     *)
(* and the '.2f' format are computed as the code computes them.            *)
(***************************************************************************)
EXTENDS Integers, Sequences, FiniteSets, TLC

(***************************************************************************)
(* Text                                                                    *)
(***************************************************************************)
Whitespace == {" "}

RECURSIVE LStrip(_)
LStrip(s) == IF s # << >> /\ Head(s) \in Whitespace THEN LStrip(Tail(s)) ELSE s

RECURSIVE RStrip(_)
RStrip(s) ==
    IF s # << >> /\ s[Len(s)] \in Whitespace
    THEN RStrip(SubSeq(s, 1, Len(s) - 1))
    ELSE s

\* str.strip(): leading and trailing whitespace removed.
strip(s) == RStrip(LStrip(s))

\* wtforms DataRequired: the data is non-empty and not only whitespace.
DataRequired(data) == data # << >> /\ strip(data) # << >>

Digits == <<"0", "1", "2", "3", "4", "5", "6", "7", "8", "9">>

IsDigit(c) == \E i \in 1..10 : Digits[i] = c

DigitVal(c) == (CHOOSE i \in 1..10 : Digits[i] = c) - 1

RECURSIVE DigitsToNat(_)
DigitsToNat(ds) ==
    IF ds = << >> THEN 0
    ELSE 10 * DigitsToNat(SubSeq(ds, 1, Len(ds) - 1)) + DigitVal(ds[Len(ds)])

RECURSIVE NatToDigits(_)
NatToDigits(n) ==
    IF n < 10 THEN <<Digits[n + 1]>>
    ELSE NatToDigits(n \div 10) \o <<Digits[(n % 10) + 1]>>

RECURSIVE Pow10(_)
Pow10(k) == IF k = 0 THEN 1 ELSE 10 * Pow10(k - 1)

Abs(n) == IF n < 0 THEN -n ELSE n

Min(a, b) == IF a < b THEN a ELSE b

(***************************************************************************)
(* decimal.Decimal, for finite values: [coef, exp] is coef * 10^exp.       *)
(* ok = FALSE is decimal.InvalidOperation raised by the constructor.       *)
(* The numerals of the model have no exponent part and far fewer than 28   *)
(* digits, so no result is rounded by the context's precision.             *)
(***************************************************************************)
DecimalZero == [coef |-> 0, exp |-> 0]

\* Decimal(text): optional whitespace, optional sign, digits with at most one
\* point and at least one digit; anything else raises.
Decimal(text) ==
    LET t      == strip(text)
        signed == t # << >> /\ Head(t) \in {"-", "+"}
        neg    == t # << >> /\ Head(t) = "-"
        body   == IF signed THEN Tail(t) ELSE t
        dots   == {i \in 1..Len(body) : body[i] = "."}
        dot    == IF dots = {} THEN Len(body) + 1 ELSE CHOOSE i \in dots : TRUE
        ip     == SubSeq(body, 1, dot - 1)
        fp     == SubSeq(body, dot + 1, Len(body))
        valid  == /\ Cardinality(dots) <= 1
                  /\ \A i \in 1..Len(ip) : IsDigit(ip[i])
                  /\ \A i \in 1..Len(fp) : IsDigit(fp[i])
                  /\ Len(ip) + Len(fp) > 0
    IN  IF valid
        THEN [ok |-> TRUE,
              coef |-> (IF neg THEN -1 ELSE 1) * DigitsToNat(ip \o fp),
              exp |-> -Len(fp)]
        ELSE [ok |-> FALSE, coef |-> 0, exp |-> 0]

\* The value of a stored numeral (the constructor is known not to raise).
DecimalOf(text) == [coef |-> Decimal(text).coef, exp |-> Decimal(text).exp]

\* The coefficient of d at the (smaller) exponent e.
Rescale(d, e) == d.coef * Pow10(d.exp - e)

DecimalAdd(a, b) ==
    LET e == Min(a.exp, b.exp)
    IN  [coef |-> Rescale(a, e) + Rescale(b, e), exp |-> e]

DecimalSub(a, b) ==
    LET e == Min(a.exp, b.exp)
    IN  [coef |-> Rescale(a, e) - Rescale(b, e), exp |-> e]

\* a == b as Decimal compares: by value, whatever the exponents.
DecimalEq(a, b) == DecimalSub(a, b).coef = 0

\* Mutant: >= for >.
DecimalNotNegative(d) == d.coef >= 0

\* Decimal.__gt__ against the int 0.
DecimalPositive(d) == d.coef > 0

\* str(Decimal) for exp <= 0: plain notation, -exp digits after the point.
DecimalStr(d) ==
    LET ds   == NatToDigits(Abs(d.coef))
        k    == -d.exp
        pad  == IF Len(ds) > k THEN ds
                ELSE [i \in 1..(k + 1) |->
                        IF i <= k + 1 - Len(ds) THEN "0"
                        ELSE ds[i - (k + 1 - Len(ds))]]
        ip   == SubSeq(pad, 1, Len(pad) - k)
        fp   == SubSeq(pad, Len(pad) - k + 1, Len(pad))
        sign == IF d.coef < 0 THEN <<"-">> ELSE << >>
    IN  sign \o ip \o (IF k = 0 THEN << >> ELSE <<".">> \o fp)

\* num/den (den > 0) rounded to an integer, ties to even (ROUND_HALF_EVEN).
RoundHalfEven(num, den) ==
    LET a == Abs(num)
        q == a \div den
        r == a % den
        m == IF 2 * r > den \/ (2 * r = den /\ q % 2 = 1) THEN q + 1 ELSE q
    IN  IF num < 0 THEN -m ELSE m

\* f'{x:.2f}%' of a value that rounds to n hundredths; negative is the sign of
\* the value before rounding (a negative value that rounds to zero is -0.00).
Format2f(n, negative) ==
    LET a    == Abs(n)
        cents == a % 100
    IN  (IF negative THEN <<"-">> ELSE << >>)
        \o NatToDigits(a \div 100) \o <<".">>
        \o <<Digits[(cents \div 10) + 1], Digits[(cents % 10) + 1]>>
        \o <<"%">>


(***************************************************************************)
(* The collection db.expenses_collection: the user documents in insertion  *)
(* order.  A document is [username, password, expenses, categories]; an    *)
(* embedded list that was never pushed to is the empty sequence (every     *)
(* filter, projection and update of the code treats a missing array field  *)
(* and an empty one alike: cursor_to_list defaults to [], a dotted filter  *)
(* matches nothing, $pull changes nothing, $push creates the field).       *)
(***************************************************************************)
\* The documents of coll that match {'username': username}.
ByUsername(coll, username) == {i \in 1..Len(coll) : coll[i].username = username}

\* find_one / update_one act on the first matching document.
First(S) == CHOOSE i \in S : \A j \in S : i <= j

\* The positions of list whose entry has the given id.
WithId(list, id) == {k \in 1..Len(list) : list[k].id = id}

\* $pull {'id': id}: the entries of list with another id, in order.
RECURSIVE Without(_, _)
Without(list, id) ==
    IF list = << >> THEN << >>
    ELSE IF Head(list).id = id THEN Without(Tail(list), id)
    ELSE <<Head(list)>> \o Without(Tail(list), id)

\* Mutant: the collection has no unique index.
UniqueIndexMissing(coll, doc) == TRUE

\* The collection's unique index on username.
UniqueIndexAllows(coll, doc) == ByUsername(coll, doc.username) = {}

\* insert_one: DuplicateKeyError (raised, nothing inserted) when the unique
\* index on username already holds the key.
insert_one(coll, doc) ==
    IF UniqueIndexAllows(coll, doc)
    THEN [coll |-> Append(coll, doc), raised |-> FALSE]
    ELSE [coll |-> coll, raised |-> TRUE]

\* RegisterUser.save
RegisterUser_save(coll, username, password) ==
    insert_one(coll, [username |-> username, password |-> password,
                      expenses |-> << >>, categories |-> << >>])

\* User.validate_unique_username
validate_unique_username(coll, username) == ByUsername(coll, username) = {}

\* Expense.get_all_expenses_from_user: raised when no document matches
\* (next(cursor, None) is None).
get_all_expenses_from_user(coll, username) ==
    coll[First(ByUsername(coll, username))].expenses

\* Category.get_all_categories_from_user
get_all_categories_from_user(coll, username) ==
    coll[First(ByUsername(coll, username))].categories

\* Mutant: the update's filter is empty, so the first document of the
\* collection is the one updated.
Expense_save_unfiltered(coll, username, expense) ==
    IF coll = << >> THEN coll
    ELSE [coll EXCEPT ![1].expenses = Append(@, expense)]

\* Expense.save: $push to the expenses of the user's document.
Expense_save(coll, username, expense) ==
    IF ByUsername(coll, username) = {} THEN coll
    ELSE [coll EXCEPT ![First(ByUsername(coll, username))].expenses =
                          Append(@, expense)]

\* Mutant: $set of the whole entry to the model's dump, date (None) included.
Expense_update_entry(coll, username, expense) ==
    LET docs == {i \in ByUsername(coll, username) :
                    WithId(coll[i].expenses, expense.id) # {}}
    IN  IF docs = {} THEN [coll |-> coll, modified_count |-> 0]
        ELSE LET i   == First(docs)
                 k   == First(WithId(coll[i].expenses, expense.id))
                 new == [coll EXCEPT ![i].expenses[k] = expense]
             IN  [coll |-> new,
                  modified_count |-> IF new = coll THEN 0 ELSE 1]

\* Expense.update: $set of four fields of the first entry with the id, in the
\* first document of the user that has such an entry.  modified_count is 1
\* only when the document changed.
Expense_update(coll, username, expense) ==
    LET docs == {i \in ByUsername(coll, username) :
                    WithId(coll[i].expenses, expense.id) # {}}
    IN  IF docs = {} THEN [coll |-> coll, modified_count |-> 0]
        ELSE LET i   == First(docs)
                 k   == First(WithId(coll[i].expenses, expense.id))
                 new == [coll EXCEPT ![i].expenses[k] =
                            [@ EXCEPT !.description = expense.description,
                                      !.amount = expense.amount,
                                      !.category_id = expense.category_id,
                                      !.category_name = expense.category_name]]
             IN  [coll |-> new,
                  modified_count |-> IF new = coll THEN 0 ELSE 1]

\* Expense.get_expense_from_user: the first entry with the id; raised when
\* find_one returns None (no such entry, or no expenses at all).
Expense_get_expense_from_user(coll, username, expense_id) ==
    LET docs == {i \in ByUsername(coll, username) :
                    WithId(coll[i].expenses, expense_id) # {}}
    IN  IF docs = {} THEN [raised |-> TRUE]
        ELSE LET list == coll[First(docs)].expenses
             IN  [raised |-> FALSE,
                  expense |-> list[First(WithId(list, expense_id))]]

\* Mutant: $pop of the last expense entry in place of the $pull by id.
Expense_delete_last(coll, username, expense_id) ==
    IF ByUsername(coll, username) = {} THEN [coll |-> coll, modified_count |-> 0]
    ELSE LET i   == First(ByUsername(coll, username))
             new == [coll EXCEPT ![i].expenses =
                        IF @ = << >> THEN @ ELSE SubSeq(@, 1, Len(@) - 1)]
         IN  [coll |-> new, modified_count |-> IF new = coll THEN 0 ELSE 1]

\* Expense.delete_category: $pull of every expense entry with the id.
Expense_delete_category(coll, username, expense_id) ==
    IF ByUsername(coll, username) = {} THEN [coll |-> coll, modified_count |-> 0]
    ELSE LET i   == First(ByUsername(coll, username))
             new == [coll EXCEPT ![i].expenses = Without(@, expense_id)]
         IN  [coll |-> new, modified_count |-> IF new = coll THEN 0 ELSE 1]

\* Mutant: the filter names a field no expense has, so nothing ever matches.
Expense_verify_wrong_field(coll, username, category_id) == TRUE

\* Expense.verify_expense_with_category: TRUE when no expense of the user
\* has the category_id.
Expense_verify_expense_with_category(coll, username, category_id) ==
    {i \in ByUsername(coll, username) :
        \E k \in 1..Len(coll[i].expenses) :
            coll[i].expenses[k].category_id = category_id} = {}

\* Category.save: $push to the categories of the user's document.
Category_save(coll, username, category) ==
    IF ByUsername(coll, username) = {} THEN coll
    ELSE [coll EXCEPT ![First(ByUsername(coll, username))].categories =
                          Append(@, category)]

\* Mutant: the rename is carried into the expenses that reference the category.
Category_update_synced(coll, username, category) ==
    LET docs == {i \in ByUsername(coll, username) :
                    WithId(coll[i].categories, category.id) # {}}
    IN  IF docs = {} THEN [coll |-> coll, modified_count |-> 0]
        ELSE LET i   == First(docs)
                 k   == First(WithId(coll[i].categories, category.id))
                 new == [coll EXCEPT
                            ![i].categories[k] =
                                [@ EXCEPT !.name = category.name,
                                          !.budget = category.budget],
                            ![i].expenses =
                                [e \in 1..Len(@) |->
                                    IF @[e].category_id = category.id
                                    THEN [@[e] EXCEPT !.category_name = category.name]
                                    ELSE @[e]]]
             IN  [coll |-> new,
                  modified_count |-> IF new = coll THEN 0 ELSE 1]

\* Category.update: $set of name and budget of the first entry with the id.
Category_update(coll, username, category) ==
    LET docs == {i \in ByUsername(coll, username) :
                    WithId(coll[i].categories, category.id) # {}}
    IN  IF docs = {} THEN [coll |-> coll, modified_count |-> 0]
        ELSE LET i   == First(docs)
                 k   == First(WithId(coll[i].categories, category.id))
                 new == [coll EXCEPT ![i].categories[k] =
                            [@ EXCEPT !.name = category.name,
                                      !.budget = category.budget]]
             IN  [coll |-> new,
                  modified_count |-> IF new = coll THEN 0 ELSE 1]

\* Category.get_category_from_user
Category_get_category_from_user(coll, username, category_id) ==
    LET docs == {i \in ByUsername(coll, username) :
                    WithId(coll[i].categories, category_id) # {}}
    IN  IF docs = {} THEN [raised |-> TRUE]
        ELSE LET list == coll[First(docs)].categories
             IN  [raised |-> FALSE,
                  category |-> list[First(WithId(list, category_id))]]

\* Category.validate_unique_category_name: TRUE when no category of the user
\* has the name.
Category_validate_unique_category_name(coll, username, category_name) ==
    {i \in ByUsername(coll, username) :
        \E k \in 1..Len(coll[i].categories) :
            coll[i].categories[k].name = category_name} = {}

\* Mutant: the guard is part of the update's filter (one conditional update):
\* nothing is pulled while an expense has the category_id.
Category_delete_unreferenced(coll, username, category_id) ==
    LET docs == {i \in ByUsername(coll, username) :
                    \A e \in 1..Len(coll[i].expenses) :
                        coll[i].expenses[e].category_id # category_id}
    IN  IF docs = {} THEN [coll |-> coll, modified_count |-> 0]
        ELSE LET i   == First(docs)
                 new == [coll EXCEPT ![i].categories = Without(@, category_id)]
             IN  [coll |-> new, modified_count |-> IF new = coll THEN 0 ELSE 1]

\* Category.delete_category: $pull of every category entry with the id.
Category_delete_category(coll, username, category_id) ==
    IF ByUsername(coll, username) = {} THEN [coll |-> coll, modified_count |-> 0]
    ELSE LET i   == First(ByUsername(coll, username))
             new == [coll EXCEPT ![i].categories = Without(@, category_id)]
         IN  [coll |-> new, modified_count |-> IF new = coll THEN 0 ELSE 1]


(***************************************************************************)
(* Aggregation (Expense's static methods).  An expense or category dict is *)
(* a record; a key the dict lacks is a field the record lacks.             *)
(***************************************************************************)
\* 'Undefined category', the bucket of an expense without category_name.
UndefinedCategory ==
    <<"U", "n", "d", "e", "f", "i", "n", "e", "d", " ",
      "c", "a", "t", "e", "g", "o", "r", "y">>

\* expense.get('category_name', 'Undefined category')
CategoryKey(expense) ==
    IF "category_name" \in DOMAIN expense THEN expense.category_name
    ELSE UndefinedCategory

\* Decimal(expense.get('amount', 0))
AmountOrZero(expense) ==
    IF "amount" \in DOMAIN expense THEN DecimalOf(expense.amount)
    ELSE DecimalZero

\* Mutant: each key once, the newest key first.
RECURSIVE NewestFirst(_)
NewestFirst(keys) ==
    IF keys = << >> THEN << >>
    ELSE LET front == NewestFirst(SubSeq(keys, 1, Len(keys) - 1))
             last  == keys[Len(keys)]
         IN  IF \E i \in 1..Len(front) : front[i] = last THEN front
             ELSE <<last>> \o front

\* The keys of a dict filled in the order of keys: each once, first-seen order.
RECURSIVE FirstSeen(_)
FirstSeen(keys) ==
    IF keys = << >> THEN << >>
    ELSE LET front == FirstSeen(SubSeq(keys, 1, Len(keys) - 1))
             last  == keys[Len(keys)]
         IN  IF \E i \in 1..Len(front) : front[i] = last THEN front
             ELSE Append(front, last)

\* Mutant: every amount is added, whatever its bucket.
RECURSIVE SpentBudgetAnyKey(_, _)
SpentBudgetAnyKey(expense_list, key) ==
    IF expense_list = << >> THEN DecimalZero
    ELSE DecimalAdd(SpentBudgetAnyKey(SubSeq(expense_list, 1, Len(expense_list) - 1), key),
                    AmountOrZero(expense_list[Len(expense_list)]))

\* spent_budget[key] after the loop over expense_list: the Decimal sum, from
\* Decimal() on, of the amounts of the expenses bucketed under key.
RECURSIVE SpentBudget(_, _)
SpentBudget(expense_list, key) ==
    IF expense_list = << >> THEN DecimalZero
    ELSE LET front == SpentBudget(SubSeq(expense_list, 1, Len(expense_list) - 1), key)
             last  == expense_list[Len(expense_list)]
         IN  IF CategoryKey(last) = key THEN DecimalAdd(front, AmountOrZero(last))
             ELSE front

\* budget[key]: a dict comprehension keeps the value of the last category with
\* the name.
BudgetOf(category_list, key) ==
    LET ks == {k \in 1..Len(category_list) : category_list[k].name = key}
    IN  DecimalOf(category_list[CHOOSE k \in ks : \A j \in ks : j <= k].budget)

\* Mutant: the share spent, (spent / value) * 100, without the "100 -".
ShareSpent(spent, value) ==
    IF value.coef = 0 THEN Format2f(0, FALSE)
    ELSE LET e   == Min(spent.exp, value.exp)
             s   == Rescale(spent, e)
             v   == Rescale(value, e)
             num == IF v < 0 THEN -(10000 * s) ELSE 10000 * s
             den == Abs(v)
         IN  Format2f(RoundHalfEven(num, den), num < 0)

\* Mutant: the percentage is clamped at 0 from below.
PercentageClamped(spent, value) ==
    IF value.coef = 0 THEN Format2f(0, FALSE)
    ELSE LET e   == Min(spent.exp, value.exp)
             s   == Rescale(spent, e)
             v   == Rescale(value, e)
             num == IF v < 0 THEN -(10000 * (v - s)) ELSE 10000 * (v - s)
             den == Abs(v)
         IN  IF num < 0 THEN Format2f(0, FALSE)
             ELSE Format2f(RoundHalfEven(num, den), FALSE)

\* (100 - (spent / value) * 100) if value != 0 else 0, then f'{...:.2f}%'.
\* The quotient is taken exactly and rounded once, by the format.
PercentageSpent(spent, value) ==
    IF value.coef = 0 THEN Format2f(0, FALSE)
    ELSE LET e   == Min(spent.exp, value.exp)
             s   == Rescale(spent, e)
             v   == Rescale(value, e)
             num == IF v < 0 THEN -(10000 * (v - s)) ELSE 10000 * (v - s)
             den == Abs(v)
         IN  Format2f(RoundHalfEven(num, den), num < 0)

\* Expense.calculate_remaining_budget_by_category
calculate_remaining_budget_by_category(expense_list, category_list) ==
    LET keys == FirstSeen([k \in 1..Len(category_list) |-> category_list[k].name])
    IN  [n \in 1..Len(keys) |->
            LET value == BudgetOf(category_list, keys[n])
                spent == SpentBudget(expense_list, keys[n])
            IN  [name |-> keys[n],
                 budget |-> DecimalStr(DecimalSub(value, spent)),
                 percentage_spent |-> PercentageSpent(spent, value)]]

\* Expense.sum_expenses_by_category: (name_list, value_list)
sum_expenses_by_category(expense_list) ==
    LET keys == FirstSeen([k \in 1..Len(expense_list) |->
                              CategoryKey(expense_list[k])])
    IN  <<keys, [n \in 1..Len(keys) |-> SpentBudget(expense_list, keys[n])]>>

\* Expense.sum_expenses: sum() from the int 0 over Decimal(expense['amount']).
RECURSIVE sum_expenses(_)
sum_expenses(expense_list) ==
    IF expense_list = << >> THEN DecimalZero
    ELSE DecimalAdd(sum_expenses(SubSeq(expense_list, 1, Len(expense_list) - 1)),
                    DecimalOf(expense_list[Len(expense_list)].amount))


(***************************************************************************)
(* State                                                                   *)
(***************************************************************************)
VARIABLES
    expenses_collection,  \* db.expenses_collection: the user documents
    next_id,              \* the next value of ObjectId(): ids are never reused
    response,             \* the answer of the request that just ran (its flash
                          \* message, FormRendered or ServerError) until it is
                          \* delivered; NoResponse between requests
    pc,                   \* interleaved requests: where each worker's request
                          \* stands, with what it has read and its answer
    expense_list,         \* aggregation alone: the expense dicts passed in
    category_list,        \* aggregation alone: the category dicts passed in
    rendered              \* aggregation alone: what the view computed

vars == <<expenses_collection, next_id, response, pc, expense_list,
          category_list, rendered>>

store == <<expenses_collection, next_id>>
sequential == <<response>>
interleaved == <<pc>>
aggregation == <<expense_list, category_list, rendered>>

\* Bound: how many ObjectIds the handlers draw for stored entries.
MaxIds == 3

Ids == 1..MaxIds

(***************************************************************************)
(* Request inputs                                                          *)
(***************************************************************************)
Usernames == {"alice", "bob"}

PasswordHashes == {"$2b$12$hash"}

Food == <<"F", "o", "o", "d">>
Rent == <<"R", "e", "n", "t">>

Lunch == <<"l", "u", "n", "c", "h">>
Taxi == <<"t", "a", "x", "i">>

\* Numerals a form may carry: no number, negative, zero, and two positive
\* numerals of different exponents.
NotANumber == <<"a", "b", "c">>
BadNumerals == {NotANumber, <<"-", "1">>, <<"0">>}
GoodNumerals == {<<"1", ".", "5">>, <<"2">>}

\* ExpenseForm data (description, amount): every valid pair, a blank
\* description, and each bad numeral.
ExpenseFormInputs ==
    {[description |-> d, amount |-> a] : d \in {Lunch, Taxi}, a \in GoodNumerals}
    \cup {[description |-> << >>, amount |-> <<"2">>]}
    \cup {[description |-> Lunch, amount |-> a] : a \in BadNumerals}

\* CategoryForm data (name, budget): every valid pair, a name to strip, a
\* blank name, and each bad numeral.
CategoryFormInputs ==
    {[name |-> n, budget |-> b] : n \in {Food, Rent}, b \in GoodNumerals}
    \cup {[name |-> <<" ">> \o Food \o <<" ">>, budget |-> <<"2">>]}
    \cup {[name |-> <<" ">>, budget |-> <<"2">>]}
    \cup {[name |-> Food, budget |-> b] : b \in BadNumerals}

\* datetime.utcnow().strftime('%d-%m-%Y')
Dates == {"01-11-2026"}

\* Expense.date of an Expense built without a date.
None == "None"

(***************************************************************************)
(* Responses                                                               *)
(***************************************************************************)
NoResponse == "(none)"
FormRendered == "form rendered, no flash"
ServerError == "500 Internal Server Error"
Registered == "You registered and are now logged in. Welcome!"
UsernameTaken == "Username already submitted"
ExpenseSubmitted == "Expense form submitted successfully!"
AmountNotPositive == "Amount must be a positive number."
ExpenseDeleted == "Expense deleted successfully!"
ExpenseNotFound == "Expense not found or unable to delete."
CategorySubmitted == "Category form submitted successfully!"
BudgetNotPositive == "Budget must be a positive number."
CategoryExists == "Category already exists."
CategoryDeleted == "Category deleted successfully!"
CategoryNotFound == "Category not found or unable to delete."
CategoryHasExpenses == "Can't delete Category with Expenses. "

(***************************************************************************)
(* Handlers, each request run from start to end (one request at a time).   *)
(* A handler is an operator from the collection and the request to the     *)
(* collection it leaves and the response; the action applies it.           *)
(***************************************************************************)
\* @login_required: the session's user is loaded from its document.
LoggedIn(coll, username) == ByUsername(coll, username) # {}

\* utils.generate_form_select_field: the (id, name) choices.
generate_form_select_field(items) ==
    [k \in 1..Len(items) |-> <<items[k].id, items[k].name>>]

\* SelectField validation: the submitted value is one of the choices.
ValidChoice(choices, data) == \E k \in 1..Len(choices) : choices[k][1] = data

\* dict(form.category.choices).get(category_id): the last pair with the key.
ChoiceName(choices, data) ==
    LET ks == {k \in 1..Len(choices) : choices[k][1] = data}
    IN  choices[CHOOSE k \in ks : \A j \in ks : j <= k][2]

\* ExpenseForm.validate_on_submit
ExpenseFormValid(choices, description, amount, category) ==
    DataRequired(description) /\ DataRequired(amount) /\ ValidChoice(choices, category)

\* CategoryForm.validate_on_submit
CategoryFormValid(name, budget) == DataRequired(name) /\ DataRequired(budget)

\* auth.routes.register
register_run(coll, username, password) ==
    IF validate_unique_username(coll, username)
    THEN LET r == RegisterUser_save(coll, username, password)
         IN  [coll |-> r.coll,
              response |-> IF r.raised THEN ServerError ELSE Registered]
    ELSE [coll |-> coll, response |-> UsernameTaken]

\* tracker.routes.add_expense
add_expense_run(coll, new_id, date, username, description, amount, category) ==
    LET categories == get_all_categories_from_user(coll, username)
        choices    == generate_form_select_field(categories)
    IN  IF ~ExpenseFormValid(choices, description, amount, category)
        THEN [coll |-> coll, response |-> FormRendered]
        ELSE IF ~Decimal(amount).ok
        THEN [coll |-> coll, response |-> ServerError]
        ELSE IF ~DecimalPositive(Decimal(amount))
        THEN [coll |-> coll, response |-> AmountNotPositive]
        ELSE [coll |-> Expense_save(coll, username,
                          [id |-> new_id, description |-> description,
                           amount |-> amount, category_id |-> category,
                           category_name |-> ChoiceName(choices, category),
                           date |-> date]),
              response |-> ExpenseSubmitted]

\* Mutant: the non-positive amount is flashed, and the update runs all the same.
edit_expense_falls_through(coll, username, expense_id, description, amount, category) ==
    LET categories == get_all_categories_from_user(coll, username)
        choices    == generate_form_select_field(categories)
    IN  IF Expense_get_expense_from_user(coll, username, expense_id).raised
        THEN [coll |-> coll, response |-> ServerError]
        ELSE IF ~ExpenseFormValid(choices, description, amount, category)
        THEN [coll |-> coll, response |-> FormRendered]
        ELSE IF ~Decimal(amount).ok
        THEN [coll |-> coll, response |-> ServerError]
        ELSE [coll |-> Expense_update(coll, username,
                          [id |-> expense_id, description |-> description,
                           amount |-> amount, category_id |-> category,
                           category_name |-> ChoiceName(choices, category),
                           date |-> None]).coll,
              response |-> IF DecimalPositive(Decimal(amount))
                           THEN ExpenseSubmitted ELSE AmountNotPositive]

\* tracker.routes.edit_expense
edit_expense_run(coll, username, expense_id, description, amount, category) ==
    LET categories == get_all_categories_from_user(coll, username)
        choices    == generate_form_select_field(categories)
    IN  IF Expense_get_expense_from_user(coll, username, expense_id).raised
        THEN [coll |-> coll, response |-> ServerError]
        ELSE IF ~ExpenseFormValid(choices, description, amount, category)
        THEN [coll |-> coll, response |-> FormRendered]
        ELSE IF ~Decimal(amount).ok
        THEN [coll |-> coll, response |-> ServerError]
        ELSE IF ~DecimalPositive(Decimal(amount))
        THEN [coll |-> coll, response |-> AmountNotPositive]
        ELSE [coll |-> Expense_update(coll, username,
                          [id |-> expense_id, description |-> description,
                           amount |-> amount, category_id |-> category,
                           category_name |-> ChoiceName(choices, category),
                           date |-> None]).coll,
              response |-> ExpenseSubmitted]

\* tracker.routes.delete_expense
delete_expense_run(coll, username, expense_id) ==
    LET result == Expense_delete_category(coll, username, expense_id)
    IN  [coll |-> result.coll,
         response |-> IF result.modified_count = 1 THEN ExpenseDeleted
                      ELSE ExpenseNotFound]

\* tracker.routes.add_category
add_category_run(coll, new_id, username, name_data, budget) ==
    LET name == strip(name_data)
    IN  IF ~CategoryFormValid(name_data, budget)
        THEN [coll |-> coll, response |-> FormRendered]
        ELSE IF ~Decimal(budget).ok
        THEN [coll |-> coll, response |-> ServerError]
        ELSE IF ~DecimalPositive(Decimal(budget))
        THEN [coll |-> coll, response |-> BudgetNotPositive]
        ELSE IF Category_validate_unique_category_name(coll, username, name)
        THEN [coll |-> Category_save(coll, username,
                          [id |-> new_id, name |-> name, budget |-> budget]),
              response |-> CategorySubmitted]
        ELSE [coll |-> coll, response |-> CategoryExists]

\* Mutant: the new name is not checked against the other categories.
edit_category_unchecked(coll, username, category_id, name_data, new_budget) ==
    LET found    == Category_get_category_from_user(coll, username, category_id)
        new_name == strip(name_data)
    IN  IF found.raised
        THEN [coll |-> coll, response |-> ServerError]
        ELSE IF ~CategoryFormValid(name_data, new_budget)
        THEN [coll |-> coll, response |-> FormRendered]
        ELSE IF ~Decimal(new_budget).ok
        THEN [coll |-> coll, response |-> ServerError]
        ELSE IF ~DecimalPositive(Decimal(new_budget))
        THEN [coll |-> coll, response |-> BudgetNotPositive]
        ELSE [coll |-> Category_update(coll, username,
                          [id |-> category_id, name |-> new_name,
                           budget |-> new_budget]).coll,
              response |-> CategorySubmitted]

\* tracker.routes.edit_category
edit_category_run(coll, username, category_id, name_data, new_budget) ==
    LET found    == Category_get_category_from_user(coll, username, category_id)
        new_name == strip(name_data)
    IN  IF found.raised
        THEN [coll |-> coll, response |-> ServerError]
        ELSE IF ~CategoryFormValid(name_data, new_budget)
        THEN [coll |-> coll, response |-> FormRendered]
        ELSE IF ~Decimal(new_budget).ok
        THEN [coll |-> coll, response |-> ServerError]
        ELSE IF ~DecimalPositive(Decimal(new_budget))
        THEN [coll |-> coll, response |-> BudgetNotPositive]
        ELSE IF /\ new_name # found.category.name
                /\ ~Category_validate_unique_category_name(coll, username, new_name)
        THEN [coll |-> coll, response |-> CategoryExists]
        ELSE [coll |-> Category_update(coll, username,
                          [id |-> category_id, name |-> new_name,
                           budget |-> new_budget]).coll,
              response |-> CategorySubmitted]

\* Mutant: the category is deleted without asking for its expenses.
delete_category_unguarded(coll, username, category_id) ==
    LET result == Category_delete_category(coll, username, category_id)
    IN  [coll |-> result.coll,
         response |-> IF result.modified_count = 1 THEN CategoryDeleted
                      ELSE CategoryNotFound]

\* tracker.routes.delete_category
delete_category_run(coll, username, category_id) ==
    IF Expense_verify_expense_with_category(coll, username, category_id)
    THEN LET result == Category_delete_category(coll, username, category_id)
         IN  [coll |-> result.coll,
              response |-> IF result.modified_count = 1 THEN CategoryDeleted
                           ELSE CategoryNotFound]
    ELSE [coll |-> coll, response |-> CategoryHasExpenses]

\* tracker.routes.list_expenses: the budget part of the rendered page.
list_expenses(coll, username) ==
    calculate_remaining_budget_by_category(
        get_all_expenses_from_user(coll, username),
        get_all_categories_from_user(coll, username))

(***************************************************************************)
(* Actions: one request, run to its end.                                   *)
(***************************************************************************)
\* Server workers that may each run a request at the same time.
Workers == {"w1", "w2", "w3"}

Idle == [at |-> "idle"]

NotRendered == [view |-> "none"]

\* The store after Database.__init__ on an empty database, no request running.
Init ==
    /\ expenses_collection = << >>
    /\ next_id = 1
    /\ response = NoResponse
    /\ pc = [w \in Workers |-> Idle]
    /\ expense_list = << >>
    /\ category_list = << >>
    /\ rendered = NotRendered

\* One request at a time: a request starts when the previous answer has been
\* delivered, and leaves the collection and the answer of its handler.
Answer(r) ==
    /\ response = NoResponse
    /\ expenses_collection' = r.coll
    /\ response' = r.response
    /\ UNCHANGED <<interleaved, aggregation>>

\* The answer reaches the client (the flash message is rendered and dropped).
Respond ==
    /\ response # NoResponse
    /\ response' = NoResponse
    /\ UNCHANGED <<store, interleaved, aggregation>>

register(username, password) ==
    /\ Answer(register_run(expenses_collection, username, password))
    /\ UNCHANGED next_id

add_expense(username, description, amount, category) ==
    /\ LoggedIn(expenses_collection, username)
    /\ next_id <= MaxIds
    /\ \E date \in Dates :
          Answer(add_expense_run(expenses_collection, next_id, date, username,
                                 description, amount, category))
    /\ next_id' = IF expenses_collection' # expenses_collection
                  THEN next_id + 1 ELSE next_id

edit_expense(username, expense_id, description, amount, category) ==
    /\ LoggedIn(expenses_collection, username)
    /\ Answer(edit_expense_run(expenses_collection, username, expense_id,
                               description, amount, category))
    /\ UNCHANGED next_id

delete_expense(username, expense_id) ==
    /\ LoggedIn(expenses_collection, username)
    /\ Answer(delete_expense_run(expenses_collection, username, expense_id))
    /\ UNCHANGED next_id

add_category(username, name, budget) ==
    /\ LoggedIn(expenses_collection, username)
    /\ next_id <= MaxIds
    /\ Answer(add_category_run(expenses_collection, next_id, username, name, budget))
    /\ next_id' = IF expenses_collection' # expenses_collection
                  THEN next_id + 1 ELSE next_id

edit_category(username, category_id, name, budget) ==
    /\ LoggedIn(expenses_collection, username)
    /\ Answer(edit_category_run(expenses_collection, username, category_id,
                                name, budget))
    /\ UNCHANGED next_id

delete_category(username, category_id) ==
    /\ LoggedIn(expenses_collection, username)
    /\ Answer(delete_category_run(expenses_collection, username, category_id))
    /\ UNCHANGED next_id

\* The users whose ledger requests the specification explores.
Clients == {"alice"}

\* A request starts when no answer is pending (the guard of Answer, stated
\* before the inputs are drawn).
Register ==
    /\ response = NoResponse
    /\ \E u \in Usernames, p \in PasswordHashes : register(u, p)

AddExpense ==
    /\ response = NoResponse
    /\ \E u \in Clients, f \in ExpenseFormInputs, c \in Ids :
          add_expense(u, f.description, f.amount, c)

EditExpense ==
    /\ response = NoResponse
    /\ \E u \in Clients, e \in Ids, f \in ExpenseFormInputs, c \in Ids :
          edit_expense(u, e, f.description, f.amount, c)

DeleteExpense ==
    /\ response = NoResponse
    /\ \E u \in Clients, e \in Ids : delete_expense(u, e)

AddCategory ==
    /\ response = NoResponse
    /\ \E u \in Clients, f \in CategoryFormInputs : add_category(u, f.name, f.budget)

EditCategory ==
    /\ response = NoResponse
    /\ \E u \in Clients, c \in Ids, f \in CategoryFormInputs :
          edit_category(u, c, f.name, f.budget)

DeleteCategory ==
    /\ response = NoResponse
    /\ \E u \in Clients, c \in Ids : delete_category(u, c)

Next ==
    \/ Register
    \/ AddExpense
    \/ EditExpense
    \/ DeleteExpense
    \/ AddCategory
    \/ EditCategory
    \/ DeleteCategory
    \/ Respond

Spec == Init /\ [][Next]_vars


(***************************************************************************)
(* Interleaved requests: the server runs each request in a worker of its   *)
(* own, and every call on the collection is one atomic step.               *)
(***************************************************************************)
Done(r) == [at |-> "done", response |-> r]

\* register, to the answer of validate_unique_username (auth/routes.py 62-66).
register_validate(w, username, password) ==
    /\ pc[w].at = "idle"
    /\ pc' = [pc EXCEPT ![w] =
                IF validate_unique_username(expenses_collection, username)
                THEN [at |-> "register.save", username |-> username,
                      password |-> password]
                ELSE Done(UsernameTaken)]
    /\ UNCHANGED <<store, sequential, aggregation>>

\* register, from register_user.save() on (auth/routes.py 68-78): the
\* DuplicateKeyError of insert_one is not caught.
register_save(w) ==
    /\ pc[w].at = "register.save"
    /\ LET r == RegisterUser_save(expenses_collection, pc[w].username,
                                  pc[w].password)
       IN  /\ expenses_collection' = r.coll
           /\ pc' = [pc EXCEPT ![w] =
                        Done(IF r.raised THEN ServerError ELSE Registered)]
    /\ UNCHANGED <<next_id, sequential, aggregation>>

\* The worker's answer is sent; the worker is free again.
respond(w) ==
    /\ pc[w].at = "done"
    /\ pc' = [pc EXCEPT ![w] = Idle]
    /\ UNCHANGED <<store, sequential, aggregation>>

RegisterValidate ==
    \E w \in Workers, u \in Usernames, p \in PasswordHashes :
        register_validate(w, u, p)

RegisterSave == \E w \in Workers : register_save(w)

RespondWorker == \E w \in Workers : respond(w)

NextConc ==
    \/ RegisterValidate
    \/ RegisterSave
    \/ RespondWorker

SpecConc == Init /\ [][NextConc]_vars

(***************************************************************************)
(* Interleaved ledger requests of one user: each call on the collection    *)
(* (find, find_one, count_documents, update_one) is one atomic step, and   *)
(* what a handler computes between two calls belongs to the earlier step.  *)
(***************************************************************************)
\* The workers that run ledger requests at the same time.
LedgerWorkers == {"w1", "w2"}

\* Bound: how many ObjectIds the interleaved handlers draw.
MaxLedgerIds == 2

LedgerIds == 1..MaxLedgerIds

\* The form data the interleaved requests carry (all of it valid: what a
\* handler does with invalid data is local to the request).
LedgerExpenseInputs == {[description |-> Lunch, amount |-> <<"2">>]}

LedgerCategoryInputs == {[name |-> n, budget |-> <<"2">>] : n \in {Food, Rent}}

\* add_expense, to the answer of get_all_categories_from_user and the checks
\* on the form (tracker/routes.py 77-97); the ObjectId is drawn at line 87.
add_expense_read(w, username, description, amount, category) ==
    /\ pc[w].at = "idle"
    /\ LoggedIn(expenses_collection, username)
    /\ next_id <= MaxLedgerIds
    /\ LET categories == get_all_categories_from_user(expenses_collection, username)
           choices    == generate_form_select_field(categories)
           saves      == /\ ExpenseFormValid(choices, description, amount, category)
                         /\ Decimal(amount).ok
                         /\ DecimalPositive(Decimal(amount))
       IN  /\ pc' = [pc EXCEPT ![w] =
                       IF ~ExpenseFormValid(choices, description, amount, category)
                       THEN Done(FormRendered)
                       ELSE IF ~Decimal(amount).ok THEN Done(ServerError)
                       ELSE IF ~DecimalPositive(Decimal(amount))
                       THEN Done(AmountNotPositive)
                       ELSE [at |-> "add_expense.save", username |-> username,
                             expense |->
                                [id |-> next_id, description |-> description,
                                 amount |-> amount, category_id |-> category,
                                 category_name |-> ChoiceName(choices, category),
                                 date |-> CHOOSE date \in Dates : TRUE]]]
           /\ next_id' = IF saves THEN next_id + 1 ELSE next_id
    /\ UNCHANGED <<expenses_collection, sequential, aggregation>>

\* add_expense, from expense.save on (tracker/routes.py 100-106).
add_expense_save(w) ==
    /\ pc[w].at = "add_expense.save"
    /\ expenses_collection' =
          Expense_save(expenses_collection, pc[w].username, pc[w].expense)
    /\ pc' = [pc EXCEPT ![w] = Done(ExpenseSubmitted)]
    /\ UNCHANGED <<next_id, sequential, aggregation>>

\* edit_expense, the answer of get_all_categories_from_user
\* (tracker/routes.py 125).
edit_expense_read(w, username, expense_id, description, amount, category) ==
    /\ pc[w].at = "idle"
    /\ LoggedIn(expenses_collection, username)
    /\ pc' = [pc EXCEPT ![w] =
                [at |-> "edit_expense.get", username |-> username,
                 expense_id |-> expense_id, description |-> description,
                 amount |-> amount, category |-> category,
                 choices |-> generate_form_select_field(
                                get_all_categories_from_user(expenses_collection,
                                                             username))]]
    /\ UNCHANGED <<store, sequential, aggregation>>

\* edit_expense, get_expense_from_user and the checks on the form
\* (tracker/routes.py 128-143).
edit_expense_get(w) ==
    /\ pc[w].at = "edit_expense.get"
    /\ LET r == pc[w]
       IN  pc' = [pc EXCEPT ![w] =
                    IF Expense_get_expense_from_user(expenses_collection, r.username,
                                                     r.expense_id).raised
                    THEN Done(ServerError)
                    ELSE IF ~ExpenseFormValid(r.choices, r.description, r.amount,
                                              r.category)
                    THEN Done(FormRendered)
                    ELSE IF ~Decimal(r.amount).ok THEN Done(ServerError)
                    ELSE IF ~DecimalPositive(Decimal(r.amount))
                    THEN Done(AmountNotPositive)
                    ELSE [at |-> "edit_expense.update", username |-> r.username,
                          expense |->
                             [id |-> r.expense_id, description |-> r.description,
                              amount |-> r.amount, category_id |-> r.category,
                              category_name |-> ChoiceName(r.choices, r.category),
                              date |-> None]]]
    /\ UNCHANGED <<store, sequential, aggregation>>

\* edit_expense, from expense.update on (tracker/routes.py 147-151): the
\* modified_count it returns is dropped.
edit_expense_update(w) ==
    /\ pc[w].at = "edit_expense.update"
    /\ expenses_collection' =
          Expense_update(expenses_collection, pc[w].username, pc[w].expense).coll
    /\ pc' = [pc EXCEPT ![w] = Done(ExpenseSubmitted)]
    /\ UNCHANGED <<next_id, sequential, aggregation>>

\* delete_expense: its one call on the collection (tracker/routes.py 169-177).
delete_expense_pull(w, username, expense_id) ==
    /\ pc[w].at = "idle"
    /\ LoggedIn(expenses_collection, username)
    /\ LET r == delete_expense_run(expenses_collection, username, expense_id)
       IN  /\ expenses_collection' = r.coll
           /\ pc' = [pc EXCEPT ![w] = Done(r.response)]
    /\ UNCHANGED <<next_id, sequential, aggregation>>

\* add_category, to the answer of validate_unique_category_name
\* (tracker/routes.py 190-204, 214); the ObjectId is drawn at line 194.
add_category_validate(w, username, name_data, budget) ==
    /\ pc[w].at = "idle"
    /\ LoggedIn(expenses_collection, username)
    /\ next_id <= MaxLedgerIds
    /\ LET name  == strip(name_data)
           saves == /\ CategoryFormValid(name_data, budget)
                    /\ Decimal(budget).ok
                    /\ DecimalPositive(Decimal(budget))
                    /\ Category_validate_unique_category_name(
                          expenses_collection, username, name)
       IN  /\ pc' = [pc EXCEPT ![w] =
                       IF ~CategoryFormValid(name_data, budget)
                       THEN Done(FormRendered)
                       ELSE IF ~Decimal(budget).ok THEN Done(ServerError)
                       ELSE IF ~DecimalPositive(Decimal(budget))
                       THEN Done(BudgetNotPositive)
                       ELSE IF saves
                       THEN [at |-> "add_category.save", username |-> username,
                             category |-> [id |-> next_id, name |-> name,
                                           budget |-> budget]]
                       ELSE Done(CategoryExists)]
           /\ next_id' = IF saves THEN next_id + 1 ELSE next_id
    /\ UNCHANGED <<expenses_collection, sequential, aggregation>>

\* add_category, from category.save on (tracker/routes.py 206-212).
add_category_save(w) ==
    /\ pc[w].at = "add_category.save"
    /\ expenses_collection' =
          Category_save(expenses_collection, pc[w].username, pc[w].category)
    /\ pc' = [pc EXCEPT ![w] = Done(CategorySubmitted)]
    /\ UNCHANGED <<next_id, sequential, aggregation>>

\* edit_category, get_category_from_user and the checks that need no further
\* call (tracker/routes.py 233-247): validate_unique_category_name is called
\* only for a positive budget and a name other than the one just read.
edit_category_get(w, username, category_id, name_data, new_budget) ==
    /\ pc[w].at = "idle"
    /\ LoggedIn(expenses_collection, username)
    /\ LET found    == Category_get_category_from_user(expenses_collection,
                                                       username, category_id)
           new_name == strip(name_data)
           category == [id |-> category_id, name |-> new_name,
                        budget |-> new_budget]
       IN  pc' = [pc EXCEPT ![w] =
                    IF found.raised THEN Done(ServerError)
                    ELSE IF ~CategoryFormValid(name_data, new_budget)
                    THEN Done(FormRendered)
                    ELSE IF ~Decimal(new_budget).ok THEN Done(ServerError)
                    ELSE IF ~DecimalPositive(Decimal(new_budget))
                    THEN Done(BudgetNotPositive)
                    ELSE IF new_name # found.category.name
                    THEN [at |-> "edit_category.validate", username |-> username,
                          category |-> category]
                    ELSE [at |-> "edit_category.update", username |-> username,
                          category |-> category]]
    /\ UNCHANGED <<store, sequential, aggregation>>

\* edit_category, the answer of validate_unique_category_name
\* (tracker/routes.py 247-248).
edit_category_validate(w) ==
    /\ pc[w].at = "edit_category.validate"
    /\ pc' = [pc EXCEPT ![w] =
                IF Category_validate_unique_category_name(
                      expenses_collection, pc[w].username, pc[w].category.name)
                THEN [pc[w] EXCEPT !.at = "edit_category.update"]
                ELSE Done(CategoryExists)]
    /\ UNCHANGED <<store, sequential, aggregation>>

\* edit_category, from category.update on (tracker/routes.py 251-256): the
\* modified_count it returns is dropped.
edit_category_update(w) ==
    /\ pc[w].at = "edit_category.update"
    /\ expenses_collection' =
          Category_update(expenses_collection, pc[w].username, pc[w].category).coll
    /\ pc' = [pc EXCEPT ![w] = Done(CategorySubmitted)]
    /\ UNCHANGED <<next_id, sequential, aggregation>>

\* delete_category, the answer of verify_expense_with_category
\* (tracker/routes.py 273, 282).
delete_category_verify(w, username, category_id) ==
    /\ pc[w].at = "idle"
    /\ LoggedIn(expenses_collection, username)
    /\ pc' = [pc EXCEPT ![w] =
                IF Expense_verify_expense_with_category(expenses_collection,
                                                        username, category_id)
                THEN [at |-> "delete_category.delete", username |-> username,
                      category_id |-> category_id]
                ELSE Done(CategoryHasExpenses)]
    /\ UNCHANGED <<store, sequential, aggregation>>

\* delete_category, from Category.delete_category on (tracker/routes.py
\* 275-280).
delete_category_delete(w) ==
    /\ pc[w].at = "delete_category.delete"
    /\ LET result == Category_delete_category(expenses_collection, pc[w].username,
                                              pc[w].category_id)
       IN  /\ expenses_collection' = result.coll
           /\ pc' = [pc EXCEPT ![w] =
                       Done(IF result.modified_count = 1 THEN CategoryDeleted
                            ELSE CategoryNotFound)]
    /\ UNCHANGED <<next_id, sequential, aggregation>>

\* The client registers (the two steps of register), then issues ledger
\* requests to the workers.
RegisterClient ==
    \E w \in LedgerWorkers, u \in Clients, p \in PasswordHashes :
        register_validate(w, u, p)

AddExpenseRead ==
    \E w \in LedgerWorkers, u \in Clients, f \in LedgerExpenseInputs, c \in LedgerIds :
        add_expense_read(w, u, f.description, f.amount, c)

AddExpenseSave == \E w \in LedgerWorkers : add_expense_save(w)

EditExpenseRead ==
    \E w \in LedgerWorkers, u \in Clients, e \in LedgerIds,
       f \in LedgerExpenseInputs, c \in LedgerIds :
        edit_expense_read(w, u, e, f.description, f.amount, c)

EditExpenseGet == \E w \in LedgerWorkers : edit_expense_get(w)

EditExpenseUpdate == \E w \in LedgerWorkers : edit_expense_update(w)

DeleteExpensePull ==
    \E w \in LedgerWorkers, u \in Clients, e \in LedgerIds : delete_expense_pull(w, u, e)

AddCategoryValidate ==
    \E w \in LedgerWorkers, u \in Clients, f \in LedgerCategoryInputs :
        add_category_validate(w, u, f.name, f.budget)

AddCategorySave == \E w \in LedgerWorkers : add_category_save(w)

EditCategoryGet ==
    \E w \in LedgerWorkers, u \in Clients, c \in LedgerIds, f \in LedgerCategoryInputs :
        edit_category_get(w, u, c, f.name, f.budget)

EditCategoryValidate == \E w \in LedgerWorkers : edit_category_validate(w)

EditCategoryUpdate == \E w \in LedgerWorkers : edit_category_update(w)

DeleteCategoryVerify ==
    \E w \in LedgerWorkers, u \in Clients, c \in LedgerIds :
        delete_category_verify(w, u, c)

DeleteCategoryDelete == \E w \in LedgerWorkers : delete_category_delete(w)

NextLedger ==
    \/ RegisterClient
    \/ RegisterSave
    \/ AddExpenseRead
    \/ AddExpenseSave
    \/ EditExpenseRead
    \/ EditExpenseGet
    \/ EditExpenseUpdate
    \/ DeleteExpensePull
    \/ AddCategoryValidate
    \/ AddCategorySave
    \/ EditCategoryGet
    \/ EditCategoryValidate
    \/ EditCategoryUpdate
    \/ DeleteCategoryVerify
    \/ DeleteCategoryDelete
    \/ RespondWorker

SpecLedger == Init /\ [][NextLedger]_vars

(***************************************************************************)
(* Two users, one request at a time: every registered user issues ledger   *)
(* requests, each with one valid form.                                     *)
(***************************************************************************)
UserAddsExpense ==
    /\ response = NoResponse
    /\ \E u \in Usernames, f \in LedgerExpenseInputs, c \in Ids :
          add_expense(u, f.description, f.amount, c)

UserEditsExpense ==
    /\ response = NoResponse
    /\ \E u \in Usernames, e \in Ids, f \in LedgerExpenseInputs, c \in Ids :
          edit_expense(u, e, f.description, f.amount, c)

UserDeletesExpense ==
    /\ response = NoResponse
    /\ \E u \in Usernames, e \in Ids : delete_expense(u, e)

UserAddsCategory ==
    /\ response = NoResponse
    /\ \E u \in Usernames, f \in LedgerCategoryInputs :
          add_category(u, f.name, f.budget)

UserEditsCategory ==
    /\ response = NoResponse
    /\ \E u \in Usernames, c \in Ids, f \in LedgerCategoryInputs :
          edit_category(u, c, f.name, f.budget)

UserDeletesCategory ==
    /\ response = NoResponse
    /\ \E u \in Usernames, c \in Ids : delete_category(u, c)

NextUsers ==
    \/ Register
    \/ UserAddsExpense
    \/ UserEditsExpense
    \/ UserDeletesExpense
    \/ UserAddsCategory
    \/ UserEditsCategory
    \/ UserDeletesCategory
    \/ Respond

SpecUsers == Init /\ [][NextUsers]_vars

(***************************************************************************)
(* Aggregation alone: the views' computations on any lists of dicts.       *)
(***************************************************************************)
\* Bounds: the lengths of the lists passed in.
MaxExpenseList == 2
MaxCategoryList == 2

AmountInputs == {<<"3", "0">>, <<"0", ".", "5">>}
BudgetInputs == {<<"1", "0", "0">>, <<"0">>, <<"3">>}

\* Expense dicts: with both keys, one without category_name, one without
\* amount.
ExpenseDicts ==
    {[category_name |-> n, amount |-> a] : n \in {Food, Rent}, a \in AmountInputs}
    \cup {[amount |-> <<"3", "0">>]}
    \cup {[category_name |-> Food]}

CategoryDicts == {[name |-> n, budget |-> b] : n \in {Food, Rent}, b \in BudgetInputs}

SeqsUpTo(S, n) == UNION {[1..k -> S] : k \in 0..n}

InitAggregation ==
    /\ expenses_collection = << >>
    /\ next_id = 1
    /\ response = NoResponse
    /\ pc = [w \in Workers |-> Idle]
    /\ expense_list \in SeqsUpTo(ExpenseDicts, MaxExpenseList)
    /\ category_list \in SeqsUpTo(CategoryDicts, MaxCategoryList)
    /\ rendered = NotRendered

\* What list_expenses computes from the two lists (tracker/routes.py 60).
RenderBudget ==
    /\ rendered' = [view |-> "expense_list",
                    budget |-> calculate_remaining_budget_by_category(
                                   expense_list, category_list)]
    /\ UNCHANGED <<store, sequential, interleaved, expense_list, category_list>>

\* What home computes from the expense list (tracker/routes.py 29-35);
\* sum_expenses raises KeyError on a dict without 'amount'.
RenderHome ==
    /\ rendered' =
          LET by_category == sum_expenses_by_category(expense_list)
              complete == \A k \in 1..Len(expense_list) :
                              "amount" \in DOMAIN expense_list[k]
          IN  [view |-> "home",
               expense_name_list |-> by_category[1],
               expense_amount_list |-> by_category[2],
               raised |-> ~complete,
               total |-> IF complete THEN sum_expenses(expense_list)
                         ELSE DecimalZero]
    /\ UNCHANGED <<store, sequential, interleaved, expense_list, category_list>>

NextAggregation ==
    \/ RenderBudget
    \/ RenderHome

SpecAggregation == InitAggregation /\ [][NextAggregation]_vars


(***************************************************************************)
(* Properties                                                              *)
(***************************************************************************)
Docs == 1..Len(expenses_collection)

\* The category position k of document doc is referenced by an expense of it.
Referenced(doc, category_id) ==
    \E e \in 1..Len(doc.expenses) : doc.expenses[e].category_id = category_id

HasCategory(doc, category_id) ==
    \E k \in 1..Len(doc.categories) : doc.categories[k].id = category_id

DistinctNames(categories) ==
    \A j, k \in 1..Len(categories) :
        j # k => categories[j].name # categories[k].name

\* The answers of delete_category, which no other handler gives.
DeleteCategoryAnswers == {CategoryHasExpenses, CategoryDeleted, CategoryNotFound}

\* C1: one request at a time, delete_category of a category that an expense of
\* the user references is refused and changes no list; delete_category of a
\* listed category that no expense references removes that entry, nothing
\* else, and answers with the success message.
C1_DeleteCategoryGuarded ==
    [][response' \in DeleteCategoryAnswers =>
        \A u \in Clients, c \in Ids :
          delete_category(u, c) =>
              \A i \in Docs :
                  expenses_collection[i].username = u =>
                      LET old == expenses_collection[i]
                          new == expenses_collection'[i]
                      IN  /\ Referenced(old, c) =>
                                /\ response' = CategoryHasExpenses
                                /\ expenses_collection' = expenses_collection
                          /\ (~Referenced(old, c) /\ HasCategory(old, c)) =>
                                /\ response' = CategoryDeleted
                                /\ new.expenses = old.expenses
                                /\ new.categories =
                                      SelectSeq(old.categories, LAMBDA x : x.id # c)
                                /\ Len(new.categories) = Len(old.categories) - 1
                                /\ \A j \in Docs \ {i} :
                                      expenses_collection'[j] = expenses_collection[j]
      ]_vars

\* C1 witness: a delete_category was just refused, and the expense and the
\* category it references are both still there.
C1_Witness ==
    /\ response = CategoryHasExpenses
    /\ \E i \in Docs :
          \E k \in 1..Len(expenses_collection[i].categories) :
              Referenced(expenses_collection[i],
                         expenses_collection[i].categories[k].id)

\* C2: no two user documents have the same username, also when register
\* requests interleave between validate_unique_username and the insert.
C2_UsernamesUnique ==
    \A i, j \in Docs :
        i # j => expenses_collection[i].username # expenses_collection[j].username

\* C2 witness: two registrations of one username both passed the validation,
\* one inserted and the insert of the other was rejected by the index.
C2_Witness ==
    \E w \in Workers :
        /\ pc[w].at = "done"
        /\ pc[w].response = ServerError
        /\ expenses_collection # << >>

\* C3: one request at a time, no two categories of a user have the same name.
C3_CategoryNamesUnique ==
    \A i \in Docs : DistinctNames(expenses_collection[i].categories)

\* C3 witness: a user has two categories and a request for a name already
\* taken was just refused.
C3_Witness ==
    /\ response = CategoryExists
    /\ \E i \in Docs : Len(expenses_collection[i].categories) = 2

\* The Decimal sum of the amounts of the expenses with the category_id.
RECURSIVE SpentById(_, _)
SpentById(expenses, category_id) ==
    IF expenses = << >> THEN DecimalZero
    ELSE LET rest == SpentById(Tail(expenses), category_id)
         IN  IF Head(expenses).category_id = category_id
             THEN DecimalAdd(DecimalOf(Head(expenses).amount), rest)
             ELSE rest

\* C4: the remaining budget list_expenses reports for each category is the
\* category's budget minus the amounts of the user's expenses whose
\* category_id is the category's id, category renames included.
C4_RemainingBudgetByCategoryId ==
    \A i \in Docs :
        LET doc    == expenses_collection[i]
            report == list_expenses(expenses_collection, doc.username)
        IN  \A k \in 1..Len(doc.categories) :
                \E n \in 1..Len(report) :
                    /\ report[n].name = doc.categories[k].name
                    /\ Decimal(report[n].budget).ok
                    /\ DecimalEq(DecimalOf(report[n].budget),
                                 DecimalSub(DecimalOf(doc.categories[k].budget),
                                            SpentById(doc.expenses,
                                                      doc.categories[k].id)))

\* C5: every stored amount and every stored budget is a decimal numeral
\* greater than 0.
C5_StoredValuesPositive ==
    \A i \in Docs :
        /\ \A e \in 1..Len(expenses_collection[i].expenses) :
              LET d == Decimal(expenses_collection[i].expenses[e].amount)
              IN  d.ok /\ d.coef > 0
        /\ \A k \in 1..Len(expenses_collection[i].categories) :
              LET d == Decimal(expenses_collection[i].categories[k].budget)
              IN  d.ok /\ d.coef > 0

\* C5 witness: a ledger holds an expense and a category, and a request with a
\* non-positive amount was just refused.
C5_Witness ==
    /\ response = AmountNotPositive
    /\ \E i \in Docs :
          /\ expenses_collection[i].expenses # << >>
          /\ expenses_collection[i].categories # << >>

\* The answers of a request that failed validation: of the form's validators
\* (the form is rendered again) or of the handler's own checks.
ValidationFailures ==
    {FormRendered, AmountNotPositive, BudgetNotPositive, CategoryExists,
     UsernameTaken}

\* C6: a request answered with a validation failure (a form that does not
\* validate, non-positive amount or budget, duplicate category name, duplicate
\* username) leaves every stored document as it was.
C6_ValidationFailureChangesNothing ==
    [][response' \in ValidationFailures =>
          expenses_collection' = expenses_collection]_vars

\* C6 witness: a register for a taken username was just refused while the
\* ledger of a user holds an expense.
C6_Witness ==
    /\ response = UsernameTaken
    /\ \E i \in Docs : expenses_collection[i].expenses # << >>

\* Document i has a category whose name this step changes.
Renames(i) ==
    /\ Len(expenses_collection'[i].categories) = Len(expenses_collection[i].categories)
    /\ \E k \in 1..Len(expenses_collection[i].categories) :
          expenses_collection'[i].categories[k].name #
             expenses_collection[i].categories[k].name

\* C7: an edit_category that renames a category leaves the user's expense
\* list as it was (each expense keeps its category_name and category_id), and
\* every category keeps its id and its place.
C7_RenameLeavesExpenses ==
    [][\A i \in Docs :
          (response' = CategorySubmitted /\ Renames(i)) =>
              /\ expenses_collection'[i].expenses = expenses_collection[i].expenses
              /\ \A k \in 1..Len(expenses_collection[i].categories) :
                    expenses_collection'[i].categories[k].id =
                       expenses_collection[i].categories[k].id
      ]_vars

\* C7 witness: a category was just renamed, and an expense that references it
\* carries another name than the category now has.
C7_Witness ==
    /\ response = CategorySubmitted
    /\ \E i \in Docs :
          \E e \in 1..Len(expenses_collection[i].expenses),
             k \in 1..Len(expenses_collection[i].categories) :
              /\ expenses_collection[i].expenses[e].category_id =
                    expenses_collection[i].categories[k].id
              /\ expenses_collection[i].expenses[e].category_name #
                    expenses_collection[i].categories[k].name

\* The Decimal sum of the amounts of the expense dicts whose category_name is
\* name (a dict without amount adds 0).
RECURSIVE SpentByName(_, _)
SpentByName(expenses, name) ==
    IF expenses = << >> THEN DecimalZero
    ELSE LET e    == Head(expenses)
             rest == SpentByName(Tail(expenses), name)
         IN  IF "category_name" \in DOMAIN e /\ e.category_name = name
                /\ "amount" \in DOMAIN e
             THEN DecimalAdd(DecimalOf(e.amount), rest)
             ELSE rest

\* C8: for categories of distinct names, calculate_remaining_budget_by_category
\* returns one entry per category in the order of the category list, and the
\* remaining budget plus the amounts of the expenses with the category's name
\* is the category's budget.
C8_RemainingPlusSpentIsBudget ==
    (rendered.view = "expense_list" /\ DistinctNames(category_list)) =>
        /\ Len(rendered.budget) = Len(category_list)
        /\ \A k \in 1..Len(category_list) :
              /\ rendered.budget[k].name = category_list[k].name
              /\ Decimal(rendered.budget[k].budget).ok
              /\ DecimalEq(DecimalAdd(DecimalOf(rendered.budget[k].budget),
                                      SpentByName(expense_list,
                                                  category_list[k].name)),
                           DecimalOf(category_list[k].budget))

\* C8 witness: computed for two categories and two expenses, one in each.
C8_Witness ==
    /\ rendered.view = "expense_list"
    /\ Len(category_list) = 2 /\ DistinctNames(category_list)
    /\ Len(expense_list) = 2
    /\ \A k \in 1..2 :
          /\ "category_name" \in DOMAIN expense_list[k]
          /\ "amount" \in DOMAIN expense_list[k]
          /\ expense_list[k].category_name = category_list[3 - k].name

\* The bucket of an expense dict.
KeyOf(e) == IF "category_name" \in DOMAIN e THEN e.category_name ELSE UndefinedCategory

\* The first position of expenses whose bucket is key.
FirstWithKey(expenses, key) ==
    CHOOSE p \in 1..Len(expenses) :
        /\ KeyOf(expenses[p]) = key
        /\ \A q \in 1..(p - 1) : KeyOf(expenses[q]) # key

RECURSIVE DecimalSum(_)
DecimalSum(values) ==
    IF values = << >> THEN DecimalZero
    ELSE DecimalAdd(Head(values), DecimalSum(Tail(values)))

RECURSIVE AmountSum(_)
AmountSum(expenses) ==
    IF expenses = << >> THEN DecimalZero
    ELSE DecimalAdd(DecimalOf(Head(expenses).amount), AmountSum(Tail(expenses)))

\* C9: for expenses that all carry an amount, the per-category totals of
\* sum_expenses_by_category add up to sum_expenses of the list, and the names
\* and the totals are one per distinct category_name, in first-seen order.
C9_TotalsPreserveSum ==
    (rendered.view = "home" /\ ~rendered.raised) =>
        LET names  == rendered.expense_name_list
            totals == rendered.expense_amount_list
        IN  /\ Len(names) = Len(totals)
            /\ DecimalEq(DecimalSum(totals), rendered.total)
            /\ DecimalEq(rendered.total, AmountSum(expense_list))
            /\ \A p \in 1..Len(expense_list) :
                  \E n \in 1..Len(names) : names[n] = KeyOf(expense_list[p])
            /\ \A n \in 1..Len(names) :
                  \E p \in 1..Len(expense_list) : KeyOf(expense_list[p]) = names[n]
            /\ \A m, n \in 1..Len(names) :
                  m < n => FirstWithKey(expense_list, names[m])
                              < FirstWithKey(expense_list, names[n])

\* C9 witness: computed for two expenses of different categories.
C9_Witness ==
    /\ rendered.view = "home" /\ ~rendered.raised
    /\ Len(expense_list) = 2
    /\ Len(rendered.expense_name_list) = 2

\* '70.00%' and the like, read back: the hundredths it states.
PercentHundredths(text) ==
    LET d == Decimal(SubSeq(text, 1, Len(text) - 1))
    IN  [ok |-> /\ text # << >> /\ text[Len(text)] = "%"
                /\ d.ok /\ d.exp = -2,
         value |-> d.coef]

Example100 == <<"1", "0", "0">>
Example30 == <<"3", "0">>

\* C10: percentage_spent is 100 - (spent / budget) * 100, to two decimals, for
\* a category of non-zero budget, and 0.00% for a budget of zero; for Food
\* with budget 100 and one expense of 30 the report is 70 and 70.00%.
C10_PercentageSpent ==
    (rendered.view = "expense_list" /\ DistinctNames(category_list)) =>
        /\ \A k \in 1..Len(category_list) :
              LET value == DecimalOf(category_list[k].budget)
                  spent == SpentByName(expense_list, category_list[k].name)
                  e     == Min(value.exp, spent.exp)
                  v     == Rescale(value, e)
                  s     == Rescale(spent, e)
                  shown == PercentHundredths(rendered.budget[k].percentage_spent)
              IN  /\ shown.ok
                  /\ v = 0 => rendered.budget[k].percentage_spent =
                                  <<"0", ".", "0", "0", "%">>
                  /\ v # 0 => 2 * Abs(shown.value * v - 10000 * (v - s)) <= Abs(v)
        /\ (/\ category_list = <<[name |-> Food, budget |-> Example100]>>
            /\ expense_list = <<[category_name |-> Food, amount |-> Example30]>>)
           => rendered.budget =
                 <<[name |-> Food, budget |-> <<"7", "0">>,
                    percentage_spent |-> <<"7", "0", ".", "0", "0", "%">>]>>

\* C10 witness: computed for Food with budget 100 and one expense of 30.
C10_Witness ==
    /\ rendered.view = "expense_list"
    /\ category_list = <<[name |-> Food, budget |-> Example100]>>
    /\ expense_list = <<[category_name |-> Food, amount |-> Example30]>>

\* C11 as stated: for a category of positive budget whose expenses, all of positive
\* amount, add up to more than the budget, the report has its entry and the
\* percentage_spent of the entry is above 100%.
C11_OverspentAbove100 ==
    (/\ rendered.view = "expense_list"
     /\ DistinctNames(category_list)
     /\ \A p \in 1..Len(expense_list) : "amount" \in DOMAIN expense_list[p]) =>
        \A k \in 1..Len(category_list) :
            LET value == DecimalOf(category_list[k].budget)
                spent == SpentByName(expense_list, category_list[k].name)
            IN  (value.coef > 0 /\ DecimalSub(spent, value).coef > 0) =>
                    /\ k <= Len(rendered.budget)
                    /\ rendered.budget[k].name = category_list[k].name
                    /\ PercentHundredths(rendered.budget[k].percentage_spent).ok
                    /\ PercentHundredths(rendered.budget[k].percentage_spent).value
                          > 10000

\* The categories of positive budget whose expenses add up to more than it.
Overspent(k) ==
    LET value == DecimalOf(category_list[k].budget)
        spent == SpentByName(expense_list, category_list[k].name)
    IN  value.coef > 0 /\ DecimalSub(spent, value).coef > 0

\* C11 as amended: for a category of positive budget whose expenses, all of
\* positive amount, add up to more than the budget, the report has its entry,
\* and the percentage_spent of the entry is negative: it is written with a
\* minus sign and its value is at most 0, never above 100%.
C11_OverspentBelowZero ==
    (/\ rendered.view = "expense_list"
     /\ DistinctNames(category_list)
     /\ \A p \in 1..Len(expense_list) : "amount" \in DOMAIN expense_list[p]) =>
        \A k \in 1..Len(category_list) :
            Overspent(k) =>
                /\ k <= Len(rendered.budget)
                /\ rendered.budget[k].name = category_list[k].name
                /\ Head(rendered.budget[k].percentage_spent) = "-"
                /\ PercentHundredths(rendered.budget[k].percentage_spent).ok
                /\ PercentHundredths(rendered.budget[k].percentage_spent).value <= 0

\* C11 witness: computed for a category of budget 3 with one expense of 30.
C11_Witness ==
    /\ rendered.view = "expense_list"
    /\ category_list = <<[name |-> Food, budget |-> <<"3">>]>>
    /\ expense_list = <<[category_name |-> Food, amount |-> Example30]>>
    /\ Overspent(1)

\* The document of a registered user.
UserDoc(username) ==
    expenses_collection[First(ByUsername(expenses_collection, username))]

HasExpense(doc, expense_id) ==
    \E e \in 1..Len(doc.expenses) : doc.expenses[e].id = expense_id

FailureMessages == {ExpenseNotFound, CategoryNotFound}

\* C12: under interleaving, when the write of an edit_expense, edit_category,
\* delete_expense or delete_category request runs while the id is not in the
\* user's list, the request ends with the failure message.
C12_ZeroWriteEndsInFailure ==
    [][\A w \in LedgerWorkers :
          /\ (/\ pc[w].at = "edit_expense.update"
              /\ pc'[w].at = "done"
              /\ ~HasExpense(UserDoc(pc[w].username), pc[w].expense.id))
                => pc'[w].response \in FailureMessages
          /\ (/\ pc[w].at = "edit_category.update"
              /\ pc'[w].at = "done"
              /\ ~HasCategory(UserDoc(pc[w].username), pc[w].category.id))
                => pc'[w].response \in FailureMessages
          /\ (/\ pc[w].at = "delete_category.delete"
              /\ pc'[w].at = "done"
              /\ ~HasCategory(UserDoc(pc[w].username), pc[w].category_id))
                => pc'[w].response \in FailureMessages
          /\ \A u \in Clients, e \in LedgerIds :
                (/\ delete_expense_pull(w, u, e)
                 /\ ~HasExpense(UserDoc(u), e))
                   => pc'[w].response \in FailureMessages
      ]_vars

\* C13: get_expense_from_user and get_category_from_user return the entry
\* with the id when the user's list has it, and return (None, without raising)
\* when it has not, an empty list included.
C13_GetReturnsEntryOrNone ==
    \A i \in Docs, id \in Ids :
        LET doc      == expenses_collection[i]
            expense  == Expense_get_expense_from_user(expenses_collection,
                                                      doc.username, id)
            category == Category_get_category_from_user(expenses_collection,
                                                        doc.username, id)
        IN  /\ ~expense.raised
            /\ HasExpense(doc, id) =>
                  /\ expense.expense.id = id
                  /\ \E e \in 1..Len(doc.expenses) : doc.expenses[e] = expense.expense
            /\ ~category.raised
            /\ HasCategory(doc, id) =>
                  /\ category.category.id = id
                  /\ \E k \in 1..Len(doc.categories) :
                        doc.categories[k] = category.category

\* C14: the deletion guard is not atomic.  When the delete step of a
\* delete_category request runs while an expense of the user references the
\* category (written since the request's verify step), the category is pulled
\* all the same and reported as deleted, and the expense stays in the list.
C14_DeleteAfterStaleVerify ==
    [][\A w \in LedgerWorkers :
          (/\ pc[w].at = "delete_category.delete"
           /\ pc'[w].at = "done"
           /\ HasCategory(UserDoc(pc[w].username), pc[w].category_id)
           /\ Referenced(UserDoc(pc[w].username), pc[w].category_id)) =>
              LET i   == First(ByUsername(expenses_collection, pc[w].username))
                  new == expenses_collection'[i]
              IN  /\ pc'[w].response = CategoryDeleted
                  /\ ~HasCategory(new, pc[w].category_id)
                  /\ Referenced(new, pc[w].category_id)
                  /\ new.expenses = expenses_collection[i].expenses
      ]_vars

\* C14 witness: a delete_category request has just reported the category as
\* deleted, and an expense in the list references an id that no category of
\* the list has.
C14_Witness ==
    \E w \in LedgerWorkers, i \in Docs :
        /\ pc[w].at = "done"
        /\ pc[w].response = CategoryDeleted
        /\ \E e \in 1..Len(expenses_collection[i].expenses) :
              ~HasCategory(expenses_collection[i],
                           expenses_collection[i].expenses[e].category_id)

\* The field values Expense.update is applied with.
ExpenseUpdates ==
    {[description |-> Taxi, amount |-> <<"1", ".", "5">>, category_id |-> 1,
      category_name |-> Rent],
     [description |-> Lunch, amount |-> <<"2">>, category_id |-> 2,
      category_name |-> Food]}

\* C15: Expense.update for an id in the user's expense list replaces
\* description, amount, category_id and category_name of the entry with the id
\* and nothing else (its id and date, the other entries, the order, the
\* category list and the other documents stay); for an id not in the list it
\* returns 0 and changes nothing.
C15_ExpenseUpdateFrame ==
    \A i \in Docs, id \in Ids, u \in ExpenseUpdates :
        LET doc == expenses_collection[i]
            r   == Expense_update(expenses_collection, doc.username,
                                  [id |-> id, description |-> u.description,
                                   amount |-> u.amount,
                                   category_id |-> u.category_id,
                                   category_name |-> u.category_name,
                                   date |-> None])
        IN  IF HasExpense(doc, id)
            THEN /\ Len(r.coll) = Len(expenses_collection)
                 /\ \A j \in Docs \ {i} : r.coll[j] = expenses_collection[j]
                 /\ r.coll[i].username = doc.username
                 /\ r.coll[i].password = doc.password
                 /\ r.coll[i].categories = doc.categories
                 /\ Len(r.coll[i].expenses) = Len(doc.expenses)
                 /\ \A e \in 1..Len(doc.expenses) :
                       r.coll[i].expenses[e] =
                          IF doc.expenses[e].id = id
                          THEN [id |-> id, date |-> doc.expenses[e].date,
                                description |-> u.description,
                                amount |-> u.amount,
                                category_id |-> u.category_id,
                                category_name |-> u.category_name]
                          ELSE doc.expenses[e]
            ELSE /\ r.modified_count = 0
                 /\ r.coll = expenses_collection

\* C15 witness: an edit_expense has just succeeded on an expense that now
\* references a category created after it (ids grow), and the expense still
\* carries the date it was added with.
C15_Witness ==
    /\ response = ExpenseSubmitted
    /\ \E i \in Docs :
          \E e \in 1..Len(expenses_collection[i].expenses),
             k \in 1..Len(expenses_collection[i].categories) :
              /\ expenses_collection[i].expenses[e].category_id =
                    expenses_collection[i].categories[k].id
              /\ expenses_collection[i].categories[k].id >
                    expenses_collection[i].expenses[e].id
              /\ expenses_collection[i].expenses[e].date \in Dates

\* C16: Expense.delete_category and Category.delete_category return 1 and
\* remove the entry with the id when the user's list has it, return 0 and
\* change nothing when it has not; the other entries of the list keep their
\* values and order, and the other list and the other documents stay.
C16_DeleteByIdFrame ==
    \A i \in Docs, id \in Ids :
        LET doc == expenses_collection[i]
            re  == Expense_delete_category(expenses_collection, doc.username, id)
            rc  == Category_delete_category(expenses_collection, doc.username, id)
        IN  /\ IF HasExpense(doc, id)
               THEN /\ re.modified_count = 1
                    /\ re.coll[i].expenses =
                          SelectSeq(doc.expenses, LAMBDA x : x.id # id)
                    /\ Len(re.coll[i].expenses) = Len(doc.expenses) - 1
                    /\ re.coll[i].categories = doc.categories
                    /\ Len(re.coll) = Len(expenses_collection)
                    /\ \A j \in Docs \ {i} : re.coll[j] = expenses_collection[j]
               ELSE /\ re.modified_count = 0
                    /\ re.coll = expenses_collection
            /\ IF HasCategory(doc, id)
               THEN /\ rc.modified_count = 1
                    /\ rc.coll[i].categories =
                          SelectSeq(doc.categories, LAMBDA x : x.id # id)
                    /\ Len(rc.coll[i].categories) = Len(doc.categories) - 1
                    /\ rc.coll[i].expenses = doc.expenses
                    /\ Len(rc.coll) = Len(expenses_collection)
                    /\ \A j \in Docs \ {i} : rc.coll[j] = expenses_collection[j]
               ELSE /\ rc.modified_count = 0
                    /\ rc.coll = expenses_collection

\* C16 witness: a delete_expense has just removed an expense from a list that
\* still holds another one, added after it.
C16_Witness ==
    /\ response = ExpenseDeleted
    /\ \E i \in Docs :
          /\ Len(expenses_collection[i].expenses) = 1
          /\ expenses_collection[i].expenses[1].id = MaxIds
          /\ expenses_collection[i].categories # << >>

\* C17: one request at a time, every expense's category_id is the id of a
\* category in the same user's category list.
C17_ExpensesReferenceCategories ==
    \A i \in Docs :
        \A e \in 1..Len(expenses_collection[i].expenses) :
            HasCategory(expenses_collection[i],
                        expenses_collection[i].expenses[e].category_id)

\* C17 witness: a delete_category has just removed a category while the list
\* holds an expense, which references a category that is still there.
C17_Witness ==
    /\ response = CategoryDeleted
    /\ \E i \in Docs :
          /\ expenses_collection[i].expenses # << >>
          /\ HasCategory(expenses_collection[i],
                         expenses_collection[i].expenses[1].category_id)

\* The step is a ledger request of username (add, edit or delete of an
\* expense or a category).
LedgerStepOf(username) ==
    \/ \E f \in LedgerExpenseInputs, c \in Ids :
          add_expense(username, f.description, f.amount, c)
    \/ \E e \in Ids, f \in LedgerExpenseInputs, c \in Ids :
          edit_expense(username, e, f.description, f.amount, c)
    \/ \E e \in Ids : delete_expense(username, e)
    \/ \E f \in LedgerCategoryInputs : add_category(username, f.name, f.budget)
    \/ \E c \in Ids, f \in LedgerCategoryInputs :
          edit_category(username, c, f.name, f.budget)
    \/ \E c \in Ids : delete_category(username, c)

\* C18: a ledger request of one username leaves the documents of every other
\* user as they were, and what get_all_expenses_from_user and
\* get_all_categories_from_user return for the other users does not change.
C18_OtherUsersUnchanged ==
    [][expenses_collection' # expenses_collection =>
          \A u \in Usernames :
              LedgerStepOf(u) =>
                  /\ Len(expenses_collection') = Len(expenses_collection)
                  /\ \A j \in Docs :
                        expenses_collection[j].username # u =>
                            /\ expenses_collection'[j] = expenses_collection[j]
                            /\ get_all_expenses_from_user(
                                  expenses_collection', expenses_collection[j].username)
                               = expenses_collection[j].expenses
                            /\ get_all_categories_from_user(
                                  expenses_collection', expenses_collection[j].username)
                               = expenses_collection[j].categories
      ]_vars

\* C18 witness: a user's add_expense has just succeeded while the other user
\* has a ledger of its own.
C18_Witness ==
    /\ response = ExpenseSubmitted
    /\ \E i, j \in Docs :
          /\ i # j
          /\ expenses_collection[i].expenses # << >>
          /\ expenses_collection[j].categories # << >>

\* C19: also when add_category and edit_category requests of one user
\* interleave between validate_unique_category_name and the save or update,
\* no name occurs twice in a user's category list.
C19_NamesUniqueInterleaved ==
    \A i \in Docs :
        \A n \in {Food, Rent} :
            Cardinality({k \in 1..Len(expenses_collection[i].categories) :
                            expenses_collection[i].categories[k].name = n}) <= 1

=============================================================================
